---- MODULE Spec2Model ----
(***************************************************************************)
(* Model of the RaAI backend utilities:                                    *)
(*   backend/utils/model_loader.py  - ModelLoader (_validate_env,          *)
(*                                    load_embeddings, load_llm)           *)
(*   backend/ingest_rag_docs.py     - ingest_documents                     *)
(* The program is sequential.  A behaviour is either a session of          *)
(* model_loader.py (construct a ModelLoader, then call load_embeddings and *)
(* load_llm) or a series of runs of ingest_rag_docs.py against one         *)
(* docs directory and one vector-store directory.                          *)
(***************************************************************************)
EXTENDS Integers, Sequences, FiniteSets, TLC

\* ------------------------------------------------------------ bounds
MaxPages == 2      \* pages of one PDF file
MaxRuns  == 2      \* runs of ingest_rag_docs.py in one behaviour

\* ------------------------------------------------------------ values
None == "None"                       \* Python None / os.getenv of an unset name
EnvValues == {None, "", "key"}       \* unset, set to the empty string, set
EnvNames == {"GOOGLE_API_KEY", "GEMINI_API_KEY", "GROQ_API_KEY", "OPENAI_API_KEY"}
KeySlots == {"GOOGLE_API_KEY", "GROQ_API_KEY", "OPENAI_API_KEY"}

\* Python truthiness of an optional string
Truthy(v) == v /= None /\ v /= ""

\* Python `a or b`
PyOr(a, b) == IF Truthy(a) THEN a ELSE b

\* the keys load_llm looks up in config["llm"], in the order it appends them
Priority == <<"openai", "google", "groq">>
Providers == {"openai", "google", "groq"}
SlotOf(p) ==
    CASE p = "openai" -> "OPENAI_API_KEY"
      [] p = "google" -> "GOOGLE_API_KEY"
      [] p = "groq"   -> "GROQ_API_KEY"

\* the chat classes load_llm can construct, by the entry's "provider" field
ClassOf(provider) ==
    CASE provider = "openai" -> "ChatOpenAI"
      [] provider = "google" -> "ChatGoogleGenerativeAI"
      [] provider = "groq"   -> "ChatGroq"
      [] OTHER               -> None

\* an entry of config["llm"]: absent, or a dict whose "provider" field is one
\* of the three names or anything else (a missing field, for which .get gives
\* None, stands for every value no branch of load_llm matches)
NoEntry == "<absent>"
ProviderFields == Providers \cup {None}
LlmBlocks == [Providers -> ProviderFields \cup {NoEntry}]
NoLlm == [p \in Providers |-> NoEntry]
NoClient == [key |-> None, class |-> None]

\* ------------------------------------------------------------ errors
\* an exception is its type and its message, a sequence of strings
DocumentPortalException(msg) == [type |-> "DocumentPortalException", msg |-> msg]
ValueError(msg) == [type |-> "ValueError", msg |-> <<msg>>]
KeyError(key) == [type |-> "KeyError", msg |-> <<key>>]
\* what the constructor of a chat class raises for the entry under `key`
CtorError(class, key) == [type |-> "Exception", msg |-> <<"construction failed", class, key>>]
\* no exception; str(None) is "None"
NoError == [type |-> None, msg |-> <<None>>]
NoEmbeddings == [client |-> None, constructed |-> FALSE, error |-> NoError]

\* str(e) of the exceptions above
Str(e) == e.msg

VARIABLES
    prog,               \* which script runs: "model_loader" or "ingest"
    env,                \* os.environ after load_dotenv()
    config,             \* what load_config() returns
    \* --- ModelLoader
    pc,                 \* "new", "ready", "init_failed"
    api_keys,           \* self.api_keys
    error,              \* the exception __init__ or load_llm raised
    embPc,              \* load_embeddings: "idle", "returned", "raised"
    embClient,          \* what load_embeddings returned or raised
    llmPc,              \* load_llm: "idle", "loop", "returned", "raised"
    provider_priority,  \* load_llm's candidate list
    idx,                \* position of the for loop in provider_priority
    last_error,         \* load_llm's last_error (NoError for None)
    attempts,           \* constructions attempted: <<candidate key, class, ok, error>>
    llm,                \* the client load_llm returned: [key, class], or NoClient
    \* --- ingest_rag_docs.py
    docs,               \* the docs directory: [exists, files]
    vs,                 \* the vector-store directory on disk: [dir, index]
    ipc,                \* position of ingest_documents
    pdf_files,          \* list(docs_path.glob("*.pdf"))
    all_documents,      \* the document records loaded
    chunks,             \* the chunk records of this run
    vectorstore,        \* the index in memory
    exitReason,         \* why sys.exit(1) was called, or None
    runs,               \* runs started so far
    steps,              \* the steps this run has carried out
    vsBefore,           \* the vector-store directory when this run started
    history             \* per finished run: [ok, before, after, chunks]

loaderVars == <<pc, api_keys, error, embPc, embClient, llmPc, provider_priority,
                idx, last_error, attempts, llm>>
ingestVars == <<docs, vs, ipc, pdf_files, all_documents, chunks, vectorstore,
                exitReason, runs, steps, vsBefore, history>>
vars == <<prog, env, config, loaderVars, ingestVars>>

\* ------------------------------------------------------------ ModelLoader
\* (mutant) the Google slot read without its GEMINI_API_KEY alias
ReadApiKeysNoAlias(e) ==
    [k \in KeySlots |-> e[k]]

\* _validate_env: the credential slots read from the environment
ReadApiKeys(e) ==
    [k \in KeySlots |->
        CASE k = "GOOGLE_API_KEY" -> PyOr(e["GOOGLE_API_KEY"], e["GEMINI_API_KEY"])
          [] k = "GROQ_API_KEY"   -> e["GROQ_API_KEY"]
          [] k = "OPENAI_API_KEY" -> e["OPENAI_API_KEY"]]

available_providers(keys) == {k \in KeySlots : Truthy(keys[k])}

NoKeysMsg == "No LLM API keys configured. Please set at least one"

\* ModelLoader.__init__: load_dotenv, _validate_env, load_config
Construct ==
    /\ prog = "model_loader"
    /\ pc = "new"
    /\ api_keys' = ReadApiKeys(env)
    /\ IF available_providers(ReadApiKeys(env)) = {}
         THEN /\ pc' = "init_failed"
              /\ error' = DocumentPortalException(<<NoKeysMsg>>)
         ELSE /\ pc' = "ready"
              /\ error' = error
    /\ UNCHANGED <<prog, env, config, embPc, embClient, llmPc, provider_priority,
                   idx, last_error, attempts, llm, ingestVars>>

\* load_embeddings as a function of the configuration, the recorded keys and
\* whether GoogleGenerativeAIEmbeddings(model=...) succeeds
NoGoogleMsg == "GOOGLE_API_KEY not found. Embeddings require Google Gemini API."
EmbeddingsPrefix == "Failed to load embedding model: "
EmbeddingsCtorError == [type |-> "Exception", msg |-> <<"embedding construction failed">>]

\* (mutant) the credential check of line 54 left out
EmbeddingsCauseNoKeyCheck(cfg, keys, ctorOk) ==
    IF ~cfg.embedding_model THEN KeyError("embedding_model")
    ELSE IF ~ctorOk THEN EmbeddingsCtorError
    ELSE NoError

EmbeddingsCause(cfg, keys, ctorOk) ==
    IF ~cfg.embedding_model THEN KeyError("embedding_model")
    ELSE IF ~Truthy(keys["GOOGLE_API_KEY"]) THEN ValueError(NoGoogleMsg)
    ELSE IF ~ctorOk THEN EmbeddingsCtorError
    ELSE NoError

load_embeddings_result(cfg, keys, ctorOk) ==
    LET cause == EmbeddingsCause(cfg, keys, ctorOk) IN
    IF cause = NoError
      THEN [ok |-> TRUE, client |-> "GoogleGenerativeAIEmbeddings", error |-> NoError,
            constructed |-> TRUE]
      ELSE [ok |-> FALSE, client |-> None,
            error |-> DocumentPortalException(<<EmbeddingsPrefix>> \o Str(cause)),
            \* the constructor was called only if the two checks before it passed
            constructed |-> (cause = EmbeddingsCtorError)]

LoadEmbeddings(ctorOk) ==
    /\ prog = "model_loader"
    /\ pc = "ready"
    /\ embPc = "idle"
    /\ llmPc \in {"idle", "returned", "raised"}
    /\ LET r == load_embeddings_result(config, api_keys, ctorOk) IN
         /\ embPc' = IF r.ok THEN "returned" ELSE "raised"
         /\ embClient' = [client |-> r.client, constructed |-> r.constructed,
                          error |-> r.error]
         /\ error' = error
    /\ UNCHANGED <<prog, env, config, pc, api_keys, llmPc, provider_priority,
                   idx, last_error, attempts, llm, ingestVars>>

\* (mutant) the candidates appended in the opposite order
CandidateListReversed(keys) ==
    SelectSeq(<<"groq", "google", "openai">>, LAMBDA p : Truthy(keys[SlotOf(p)]))

\* load_llm, lines 65-78: the candidate list
CandidateList(keys) ==
    SelectSeq(Priority, LAMBDA p : Truthy(keys[SlotOf(p)]))

LoadLlmStart ==
    /\ prog = "model_loader"
    /\ pc = "ready"
    /\ llmPc = "idle"
    /\ IF ~config.llm_present
         THEN \* config["llm"] raises KeyError
              /\ llmPc' = "raised"
              /\ error' = KeyError("llm")
              /\ provider_priority' = provider_priority
         ELSE /\ provider_priority' = CandidateList(api_keys)
              /\ IF CandidateList(api_keys) = <<>>
                   THEN /\ llmPc' = "raised"
                        /\ error' = ValueError("No LLM API keys configured")
                   ELSE /\ llmPc' = "loop"
                        /\ error' = error
    /\ idx' = 1
    /\ last_error' = NoError
    /\ attempts' = <<>>
    /\ UNCHANGED <<prog, env, config, pc, api_keys, embPc, embClient, llm, ingestVars>>

\* what one iteration of the for loop does with candidate key k:
\* "skip" (no entry), "none" (no branch matches the provider field),
\* or "construct" the class the provider field names
IterationKind(block, k) ==
    IF block[k] = NoEntry THEN "skip"
    ELSE IF ClassOf(block[k]) = None THEN "none"
    ELSE "construct"

\* one iteration of the loop, lines 82-124
LoadLlmTry(ok) ==
    /\ prog = "model_loader"
    /\ llmPc = "loop"
    /\ idx <= Len(provider_priority)
    /\ LET k == provider_priority[idx]
           kind == IterationKind(config.llm, k)
           class == ClassOf(config.llm[k]) IN
         CASE kind = "skip" ->
                /\ ok
                /\ idx' = idx + 1
                /\ UNCHANGED <<llmPc, last_error, attempts, llm>>
           [] kind = "none" ->
                /\ ok
                /\ idx' = idx + 1
                /\ UNCHANGED <<llmPc, last_error, attempts, llm>>
           [] kind = "construct" ->
                /\ attempts' = Append(attempts,
                       <<k, class, ok, IF ok THEN NoError ELSE CtorError(class, k)>>)
                /\ IF ok
                     THEN /\ llm' = [key |-> k, class |-> class]
                          /\ llmPc' = "returned"
                          /\ UNCHANGED <<idx, last_error>>
                     ELSE /\ last_error' = CtorError(class, k)
                          /\ idx' = idx + 1
                          /\ UNCHANGED <<llmPc, llm>>
    /\ UNCHANGED <<prog, env, config, pc, api_keys, error, embPc, embClient,
                   provider_priority, ingestVars>>

AllFailedPrefix == "Could not load any LLM provider. Last error: "

\* lines 126-128: the loop ran out of candidates
LoadLlmExhausted ==
    /\ prog = "model_loader"
    /\ llmPc = "loop"
    /\ idx > Len(provider_priority)
    /\ llmPc' = "raised"
    /\ error' = DocumentPortalException(<<AllFailedPrefix>> \o Str(last_error))
    /\ UNCHANGED <<prog, env, config, pc, api_keys, embPc, embClient,
                   provider_priority, idx, last_error, attempts, llm, ingestVars>>

\* ------------------------------------------------------------ ingest_rag_docs.py
docs_dir == "data/rag_docs"
chunk_size == 800
chunk_overlap == 200

\* file names are <<stem, suffix>>; glob("*.pdf") matches on the suffix
PdfNames == {<<"a", ".pdf">>, <<"b", ".pdf">>}
FileNames == PdfNames \cup {<<"notes", ".txt">>}

\* the text length of a page: empty, or over one chunk
PageLens == {0, 1400}
PageSeqs == UNION {[1..n -> PageLens] : n \in 0..MaxPages}

\* a file of the docs directory: absent, one PyPDFLoader cannot parse, or a
\* PDF with its pages
Absent == [present |-> FALSE, readable |-> FALSE, pages |-> <<>>]
Unparsable == [present |-> TRUE, readable |-> FALSE, pages |-> <<>>]
FileStates(n) ==
    IF n \in PdfNames
      THEN {Absent, Unparsable} \cup [present : {TRUE}, readable : {TRUE}, pages : PageSeqs]
      ELSE {Absent, Unparsable}

NoDocsDir == [exists |-> FALSE, files |-> [n \in FileNames |-> Absent]]
DocsDirs ==
    {NoDocsDir} \cup
    [exists : {TRUE},
     files : {f \in [FileNames -> UNION {FileStates(n) : n \in FileNames}] :
                \A n \in FileNames : f[n] \in FileStates(n)}]

IngestEnvs ==
    {e \in [EnvNames -> EnvValues] :
        e["GROQ_API_KEY"] = None /\ e["OPENAI_API_KEY"] = None}

NoIndex == [exists |-> FALSE, partial |-> FALSE, chunks |-> <<>>]
SaveOutcomes == {"saved", "failed", "failed_midway"}

PathOf(name) == <<docs_dir, name>>

\* (mutant) every file of the directory taken, whatever its suffix
GlobAnyFile(d) == {n \in FileNames : d.files[n].present}

\* docs_path.glob("*.pdf")
Glob(d) == {n \in FileNames : d.files[n].present /\ n[2] = ".pdf"}

\* the orders in which glob can yield a set of names
Orders(S) == {s \in [1..Cardinality(S) -> S] : \A x \in S : \E i \in DOMAIN s : s[i] = x}

\* PyPDFLoader(path).load(): one document record per page
PyPDFLoad(d, name) ==
    [i \in 1..Len(d.files[name].pages) |->
        [source |-> PathOf(name), page |-> i - 1, len |-> d.files[name].pages[i]]]

\* (mutant) source_file given the whole path instead of the file name
TagWithPath(doc, pdf_file) ==
    [source |-> doc.source, page |-> doc.page, len |-> doc.len,
     source_file |-> PathOf(pdf_file), source_path |-> PathOf(pdf_file)]

\* lines 107-109: the source metadata of one page of pdf_file
Tag(doc, pdf_file) ==
    [source |-> doc.source, page |-> doc.page, len |-> doc.len,
     source_file |-> pdf_file, source_path |-> PathOf(pdf_file)]

\* one iteration of the loop of lines 98-118: the records the file adds
LoadOne(d, pdf_file) ==
    IF d.files[pdf_file].readable
      THEN [i \in 1..Len(d.files[pdf_file].pages) |-> Tag(PyPDFLoad(d, pdf_file)[i], pdf_file)]
      ELSE <<>>    \* the exception is logged and the file skipped

RECURSIVE LoadAll(_, _)
LoadAll(d, files) ==
    IF files = <<>> THEN <<>>
    ELSE LoadOne(d, Head(files)) \o LoadAll(d, Tail(files))

\* the number of chunks of a text of the given length: windows of chunk_size
\* characters, each starting chunk_size - chunk_overlap after the last
NumChunks(len) ==
    IF len = 0 THEN 0
    ELSE IF len <= chunk_size THEN 1
    ELSE 1 + ((len - chunk_size) + (chunk_size - chunk_overlap) - 1)
                 \div (chunk_size - chunk_overlap)

SplitDoc(doc) ==
    [k \in 1..NumChunks(doc.len) |->
        [source_file |-> doc.source_file, source_path |-> doc.source_path,
         page |-> doc.page, part |-> k]]

RECURSIVE split_documents(_)
split_documents(documents) ==
    IF documents = <<>> THEN <<>>
    ELSE SplitDoc(Head(documents)) \o split_documents(Tail(documents))

\* sys.exit(1)
Exit(reason) ==
    /\ ipc' = "exit1"
    /\ exitReason' = reason
    /\ history' = Append(history, [ok |-> FALSE, added |-> 0, size |-> 0])

\* lines 45-79: the credential check, the directory check and the discovery
IngestPrecheck ==
    /\ prog = "ingest"
    /\ ipc = "start"
    /\ IF ~Truthy(env["GOOGLE_API_KEY"]) /\ ~Truthy(env["GEMINI_API_KEY"])
         THEN /\ Exit("no_key")
              /\ pdf_files' = pdf_files
         ELSE IF ~docs.exists
         THEN /\ Exit("no_dir")
              /\ pdf_files' = pdf_files
         ELSE \E order \in Orders(Glob(docs)) :
                /\ pdf_files' = order
                /\ IF order = <<>>
                     THEN Exit("no_pdfs")
                     ELSE /\ ipc' = "load_model"
                          /\ UNCHANGED <<exitReason, history>>
    /\ UNCHANGED <<prog, env, config, loaderVars, docs, vs, all_documents, chunks,
                   vectorstore, runs, steps, vsBefore>>

\* lines 81-92: ModelLoader() and load_embeddings()
IngestLoadModel(ctorOk) ==
    /\ prog = "ingest"
    /\ ipc = "load_model"
    /\ steps' = steps \cup {"model"}
    /\ api_keys' = ReadApiKeys(env)
    /\ IF available_providers(ReadApiKeys(env)) = {}
         THEN /\ pc' = "init_failed"
              /\ error' = DocumentPortalException(<<NoKeysMsg>>)
              /\ UNCHANGED <<embPc, embClient>>
              /\ Exit("model")
         ELSE LET r == load_embeddings_result(config, ReadApiKeys(env), ctorOk) IN
              /\ pc' = "ready"
              /\ embPc' = IF r.ok THEN "returned" ELSE "raised"
              /\ embClient' = [client |-> r.client, constructed |-> r.constructed,
                               error |-> r.error]
              /\ error' = error
              /\ IF r.ok
                   THEN /\ ipc' = "load_pdfs"
                        /\ UNCHANGED <<exitReason, history>>
                   ELSE Exit("model")
    /\ UNCHANGED <<prog, env, config, llmPc, provider_priority, idx, last_error,
                   attempts, llm, docs, vs, pdf_files, all_documents, chunks,
                   vectorstore, runs, vsBefore>>

\* lines 95-127: the load loop and the check that something was loaded
IngestLoadPdfs ==
    /\ prog = "ingest"
    /\ ipc = "load_pdfs"
    /\ steps' = steps \cup {"load"}
    /\ all_documents' = LoadAll(docs, pdf_files)
    /\ IF LoadAll(docs, pdf_files) = <<>>
         THEN Exit("no_docs")
         ELSE /\ ipc' = "split"
              /\ UNCHANGED <<exitReason, history>>
    /\ UNCHANGED <<prog, env, config, loaderVars, docs, vs, pdf_files, chunks,
                   vectorstore, runs, vsBefore>>

\* lines 129-138
IngestSplit ==
    /\ prog = "ingest"
    /\ ipc = "split"
    /\ steps' = steps \cup {"split"}
    /\ chunks' = split_documents(all_documents)
    /\ ipc' = "mkdir"
    /\ UNCHANGED <<prog, env, config, loaderVars, docs, vs, pdf_files, all_documents,
                   vectorstore, exitReason, runs, vsBefore, history>>

\* line 142: vectorstore_path.mkdir(parents=True, exist_ok=True)
IngestMkdir ==
    /\ prog = "ingest"
    /\ ipc = "mkdir"
    /\ steps' = steps \cup {"mkdir"}
    /\ vs' = [vs EXCEPT !.dir = TRUE]
    /\ ipc' = "build"
    /\ UNCHANGED <<prog, env, config, loaderVars, docs, pdf_files, all_documents,
                   chunks, exitReason, vectorstore, runs, vsBefore, history>>

\* (mutant) the index always created anew
BuiltIndexOverwrite(store, new) == new

\* the index lines 148-162 hold in memory when they succeed
BuiltIndex(store, new) ==
    IF store.index.exists THEN store.index.chunks \o new ELSE new

\* lines 144-162: load the index and add the chunks, or create the index.
\* ok: whether the FAISS and embedding calls succeed; an index a failed save
\* left half written cannot be loaded
IngestBuild(ok) ==
    /\ prog = "ingest"
    /\ ipc = "build"
    /\ steps' = steps \cup {"build"}
    /\ IF ok /\ ~(vs.index.exists /\ vs.index.partial)
         THEN /\ vectorstore' = BuiltIndex(vs, chunks)
              /\ ipc' = "save"
              /\ UNCHANGED <<exitReason, history>>
         ELSE /\ vectorstore' = vectorstore
              /\ Exit("index_build")
    /\ UNCHANGED <<prog, env, config, loaderVars, docs, vs, pdf_files, all_documents,
                   chunks, runs, vsBefore>>

\* lines 165-172: save_local, which succeeds, fails before it writes, or
\* fails after index.faiss was written
IngestSave(outcome) ==
    /\ prog = "ingest"
    /\ ipc = "save"
    /\ steps' = steps \cup {"save"}
    /\ CASE outcome = "saved" ->
              /\ vs' = [vs EXCEPT !.index = [exists |-> TRUE, partial |-> FALSE,
                                             chunks |-> vectorstore]]
              /\ ipc' = "done"
              /\ exitReason' = exitReason
              /\ history' = Append(history, [ok |-> TRUE, added |-> Len(chunks),
                                             size |-> Len(vectorstore)])
         [] outcome = "failed" ->
              /\ vs' = vs
              /\ Exit("index_save")
         [] outcome = "failed_midway" ->
              /\ vs' = [vs EXCEPT !.index = [exists |-> TRUE, partial |-> TRUE,
                                             chunks |-> <<>>]]
              /\ Exit("index_save")
    /\ UNCHANGED <<prog, env, config, loaderVars, docs, pdf_files, all_documents,
                   chunks, vectorstore, runs, vsBefore>>

\* the script is run again on the same directories
IngestRerun ==
    /\ prog = "ingest"
    /\ ipc \in {"done", "exit1"}
    /\ runs < MaxRuns
    /\ runs' = runs + 1
    /\ ipc' = "start"
    /\ pdf_files' = <<>>
    /\ all_documents' = <<>>
    /\ chunks' = <<>>
    /\ vectorstore' = <<>>
    /\ exitReason' = None
    /\ steps' = {}
    /\ vsBefore' = vs
    /\ pc' = "new"
    /\ api_keys' = [k \in KeySlots |-> None]
    /\ error' = NoError
    /\ embPc' = "idle"
    /\ embClient' = NoEmbeddings
    /\ UNCHANGED <<prog, env, config, llmPc, provider_priority, idx, last_error,
                   attempts, llm, docs, vs, history>>

\* ------------------------------------------------------------ specification
Configs ==
    [embedding_model : BOOLEAN, llm_present : {TRUE}, llm : LlmBlocks]
    \cup [embedding_model : BOOLEAN, llm_present : {FALSE}, llm : {NoLlm}]

LoaderIdle ==
    /\ pc = "new"
    /\ api_keys = [k \in KeySlots |-> None]
    /\ error = NoError
    /\ embPc = "idle"
    /\ embClient = NoEmbeddings
    /\ llmPc = "idle"
    /\ provider_priority = <<>>
    /\ idx = 1
    /\ last_error = NoError
    /\ attempts = <<>>
    /\ llm = NoClient

IngestIdle ==
    /\ ipc = "start"
    /\ pdf_files = <<>>
    /\ all_documents = <<>>
    /\ chunks = <<>>
    /\ vectorstore = <<>>
    /\ exitReason = None
    /\ runs = 1
    /\ steps = {}
    /\ vsBefore = vs
    /\ history = <<>>

\* a session of model_loader.py
InitLoader ==
    /\ prog = "model_loader"
    /\ env \in [EnvNames -> EnvValues]
    /\ config \in Configs
    /\ LoaderIdle
    /\ docs = NoDocsDir
    /\ vs = [dir |-> FALSE, index |-> NoIndex]
    /\ IngestIdle

\* runs of ingest_rag_docs.py; the vector-store directory holds no index yet
InitIngest ==
    /\ prog = "ingest"
    /\ env \in IngestEnvs
    /\ config \in [embedding_model : BOOLEAN, llm_present : {FALSE}, llm : {NoLlm}]
    /\ LoaderIdle
    /\ docs \in DocsDirs
    /\ vs \in [dir : BOOLEAN, index : {NoIndex}]
    /\ IngestIdle

Init == InitLoader \/ InitIngest

LoaderNext ==
    \/ Construct
    \/ \E ok \in BOOLEAN : LoadEmbeddings(ok)
    \/ LoadLlmStart
    \/ \E ok \in BOOLEAN : LoadLlmTry(ok)
    \/ LoadLlmExhausted

IngestNext ==
    \/ IngestPrecheck
    \/ \E ok \in BOOLEAN : IngestLoadModel(ok)
    \/ IngestLoadPdfs
    \/ IngestSplit
    \/ IngestMkdir
    \/ \E ok \in BOOLEAN : IngestBuild(ok)
    \/ \E outcome \in SaveOutcomes : IngestSave(outcome)
    \/ IngestRerun

Next == LoaderNext \/ IngestNext

\* either script
Spec == Init /\ [][Next]_vars

\* a session of model_loader.py
LoaderSpec == InitLoader /\ [][LoaderNext]_vars

\* a called method runs to its end: the program is sequential and no step
\* of it waits on anything
FairLoaderSpec == LoaderSpec /\ WF_vars(LoaderNext)

\* runs of ingest_rag_docs.py
IngestSpec == InitIngest /\ [][IngestNext]_vars

\* ------------------------------------------------------------ properties
\* the fixed priority of the providers
Rank(p) ==
    CASE p = "openai" -> 1
      [] p = "google" -> 2
      [] p = "groq"   -> 3

HasCredential(p) == Truthy(api_keys[SlotOf(p)])
HasEntry(p) == config.llm[p] /= NoEntry
ConstructionSucceeded(p) ==
    \E i \in DOMAIN attempts : attempts[i][1] = p /\ attempts[i][3]
ConstructionFailed(p) ==
    \E i \in DOMAIN attempts : attempts[i][1] = p /\ ~attempts[i][3]
Works(p) == HasCredential(p) /\ HasEntry(p) /\ ConstructionSucceeded(p)
FirstWorking(p) ==
    Works(p) /\ \A q \in Providers : Rank(q) < Rank(p) => ~Works(q)
ProviderOfClass(class) == CHOOSE p \in Providers : ClassOf(p) = class

\* C1: when load_llm returns a client, it is the client of the first provider,
\* in the order OpenAI, Google, Groq, that has a credential, has a
\* configuration entry and whose construction succeeded.
C1_FirstWorkingProvider ==
    llmPc = "returned" =>
        \E p \in Providers : FirstWorking(p) /\ llm.class = ClassOf(p)

\* C2: when load_llm fails after every candidate failed to construct, the
\* error wraps the error of the last candidate attempted; when no provider
\* has both a credential and a configuration entry, the error is the
\* "no providers configured" message and wraps nothing.
C2_ExhaustionError ==
    (llmPc = "raised" /\ config.llm_present) =>
        IF ~(\E p \in Providers : HasCredential(p) /\ HasEntry(p))
          THEN error.msg = <<"No LLM API keys configured">>
          ELSE (\A p \in Providers :
                    (HasCredential(p) /\ HasEntry(p)) => ConstructionFailed(p))
               => /\ error.type = "DocumentPortalException"
                  /\ error.msg = <<AllFailedPrefix>> \o Str(attempts[Len(attempts)][4])

\* C3: _validate_env succeeds exactly when one of the Google (GOOGLE_API_KEY or
\* GEMINI_API_KEY), Groq and OpenAI credentials is set and non-empty, fails
\* with the configuration error otherwise, and after it succeeds the recorded
\* credential set holds a non-empty credential.
SomeCredentialSet == \E n \in EnvNames : env[n] /= None /\ env[n] /= ""
C3_ValidateEnvironment ==
    (prog = "model_loader" /\ pc /= "new") =>
        /\ (pc = "ready") <=> SomeCredentialSet
        /\ (pc = "init_failed") <=> ~SomeCredentialSet
        /\ pc = "init_failed" => error = DocumentPortalException(<<NoKeysMsg>>)
        /\ pc = "ready" => \E k \in KeySlots : api_keys[k] /= None /\ api_keys[k] /= ""
C3_Witness ==
    /\ pc = "ready"
    /\ env["GOOGLE_API_KEY"] = "" /\ env["GEMINI_API_KEY"] = "key"
    /\ env["GROQ_API_KEY"] = None /\ env["OPENAI_API_KEY"] = ""

\* C4: load_embeddings fails with the configuration error whenever neither
\* GOOGLE_API_KEY nor GEMINI_API_KEY is set and non-empty, whatever the other
\* credentials, and then constructs no embedding client; an error of the
\* client's constructor is raised again as the model-load error carrying the
\* original message.
NoGoogleCredential ==
    /\ env["GOOGLE_API_KEY"] \in {None, ""}
    /\ env["GEMINI_API_KEY"] \in {None, ""}
C4_EmbeddingsNeedGoogle ==
    (prog = "model_loader" /\ embPc /= "idle") =>
        /\ NoGoogleCredential =>
              /\ embPc = "raised"
              /\ embClient.error.type = "DocumentPortalException"
              /\ embClient.client = None
              /\ ~embClient.constructed
        /\ (embPc = "raised" /\ embClient.constructed) =>
              embClient.error =
                  DocumentPortalException(<<EmbeddingsPrefix>> \o Str(EmbeddingsCtorError))
C4_Witness ==
    /\ prog = "model_loader"
    /\ embPc = "raised"
    /\ NoGoogleCredential
    /\ env["GROQ_API_KEY"] = "key" /\ env["OPENAI_API_KEY"] = "key"
    /\ config.embedding_model

\* C5: a successful run leaves on disk the index it found (nothing, when the
\* index file was absent) followed by the chunks of the run, and it got there
\* by the save; so after successful runs the index holds as many chunks as
\* the runs produced together, and a second run over the same files holds
\* each of its chunks twice.
Occurrences(s, x) == Cardinality({i \in DOMAIN s : s[i] = x})
RECURSIVE SumAdded(_)
SumAdded(h) == IF h = <<>> THEN 0 ELSE Head(h).added + SumAdded(Tail(h))
C5_CreateThenAppend ==
    ipc = "done" =>
        /\ "save" \in steps
        /\ vs.dir /\ vs.index.exists /\ ~vs.index.partial
        /\ chunks = split_documents(all_documents)
        /\ IF vsBefore.index.exists
             THEN vs.index.chunks = vsBefore.index.chunks \o chunks
             ELSE vs.index.chunks = chunks
        /\ (\A i \in DOMAIN history : history[i].ok) =>
              /\ Len(vs.index.chunks) = SumAdded(history)
              /\ Len(history) = 2 =>
                    \A i \in DOMAIN chunks : Occurrences(vs.index.chunks, chunks[i]) = 2
C5_Witness ==
    /\ ipc = "done"
    /\ Len(history) = 2 /\ history[1].ok /\ history[2].ok
    /\ Len(chunks) >= 2
    /\ Len(vs.index.chunks) = 2 * Len(chunks)

\* C6 as stated: after the load step a file that failed to parse has
\* contributed nothing, every page of every other file is loaded and tagged
\* with its file, and the run stops for want of documents exactly when no
\* file loaded.
Loaded(f) == docs.files[f].readable
Discovered == {pdf_files[i] : i \in DOMAIN pdf_files}
LoadStepContract ==
    /\ \A i \in DOMAIN all_documents :
          /\ all_documents[i].source[2] \in Discovered
          /\ Loaded(all_documents[i].source[2])
          /\ all_documents[i].source_file = all_documents[i].source[2]
          /\ all_documents[i].source_path = all_documents[i].source
    /\ \A f \in Discovered :
          Loaded(f) =>
              \A p \in DOMAIN docs.files[f].pages :
                  Occurrences([i \in DOMAIN all_documents |->
                                  <<all_documents[i].source, all_documents[i].page>>],
                              <<PathOf(f), p - 1>>) = 1
    /\ exitReason = "no_docs" =>
          /\ ipc = "exit1"
          /\ vs = vsBefore
          /\ steps \cap {"split", "mkdir", "build", "save"} = {}
C6_ProceedsIfAFileLoaded ==
    "load" \in steps =>
        /\ LoadStepContract
        /\ (exitReason = "no_docs") <=> ~(\E f \in Discovered : Loaded(f))

\* C6 as amended: the run stops for want of documents exactly when no page
\* was loaded, that is, when every file failed to parse or had no pages.
C6_ProceedsIfAPageLoaded ==
    "load" \in steps =>
        /\ LoadStepContract
        /\ (exitReason = "no_docs") <=>
              ~(\E f \in Discovered : Loaded(f) /\ docs.files[f].pages /= <<>>)
        /\ (exitReason = "no_docs") <=> (all_documents = <<>>)
        /\ all_documents /= <<>> =>
              ipc \in {"split", "mkdir", "build", "save", "done"}
                \/ exitReason \in {"index_build", "index_save"}
C6_Witness ==
    /\ ipc = "done"
    /\ \E f \in Discovered : ~Loaded(f)
    /\ \E f \in Discovered : Loaded(f) /\ Len(docs.files[f].pages) = 2
    /\ Len(all_documents) = 2

\* C7: when the embedding model fails to load or the index fails to build,
\* the run exits and the vector-store directory and its contents are as they
\* were before the run.
C7_NoPartialPersistence ==
    exitReason \in {"model", "index_build"} =>
        /\ ipc = "exit1"
        /\ vs = vsBefore

\* C8: without a Google or Gemini credential, without the docs directory, or
\* with no *.pdf file in it, the run exits with a non-zero status before it
\* asks for the embedding client and before it loads a PDF, and it creates
\* neither the index directory nor the index file.
NoPdfInDocs == \A n \in PdfNames : ~docs.files[n].present
C8_FailFastPreconditions ==
    (prog = "ingest" /\ ipc /= "start"
        /\ (NoGoogleCredential \/ ~docs.exists \/ NoPdfInDocs)) =>
        /\ ipc = "exit1"
        /\ exitReason \in {"no_key", "no_dir", "no_pdfs"}
        /\ steps = {}
        /\ pc = "new" /\ embPc = "idle" /\ embClient = NoEmbeddings
        /\ all_documents = <<>>
        /\ vs = vsBefore
C8_Witness ==
    /\ exitReason = "no_pdfs"
    /\ docs.files[<<"notes", ".txt">>].present
    /\ ~vs.dir

\* C9: load_llm goes through its candidates once and in order: each is tried
\* at most once, OpenAI before Google before Groq, nothing is tried after a
\* success, the loop never goes back, and the call ends, with a client or
\* with the error that follows the last candidate.
TraversedInOrder ==
    /\ \A i, j \in DOMAIN provider_priority :
          i < j => Rank(provider_priority[i]) < Rank(provider_priority[j])
    /\ \A i, j \in DOMAIN attempts :
          i < j => Rank(attempts[i][1]) < Rank(attempts[j][1])
    /\ \A i \in DOMAIN attempts : i < Len(attempts) => ~attempts[i][3]
    /\ llmPc = "returned" =>
          /\ attempts /= <<>>
          /\ attempts[Len(attempts)][3]
          /\ llm.key = attempts[Len(attempts)][1]
    /\ (llmPc = "raised" /\ error.type = "DocumentPortalException") =>
          /\ idx = Len(provider_priority) + 1
          /\ \A i \in DOMAIN attempts : ~attempts[i][3]
C9_TraversedOnce ==
    /\ []TraversedInOrder
    /\ [][idx' >= idx]_vars
    /\ (llmPc = "loop") ~> (llmPc \in {"returned", "raised"})
C9_Witness ==
    /\ llmPc = "returned"
    /\ Len(attempts) = 3
    /\ llm.key = "groq"

\* C10: a client load_llm returns is of a provider whose credential is
\* present, and of the provider of the candidate key it was tried under.
C10_ClientOfCandidate ==
    llmPc = "returned" =>
        /\ HasCredential(ProviderOfClass(llm.class))
        /\ llm.class = ClassOf(llm.key)

====
